---------------------------- MODULE Spec2Model ----------------------------
(*************************************************************************)
(* Model of the diagram layer of rust_voronoi (src/src/diagram.rs) and   *)
(* of the rectangle primitive (src/src/rect.rs).                         *)
(*                                                                       *)
(* Indices are 0-based as in the source (Vec indices, usize).  A table   *)
(* of n entries is a function with domain 0..n-1.                        *)
(*************************************************************************)
EXTENDS Integers, Sequences, FiniteSets

VARIABLES
    halfedges,            \* dcel.halfedges : 0..ne-1 -> [next, origin]
    faces,                \* dcel.faces     : 0..nf-1 -> [outer_component, alive]
    pc,                   \* position of from_dcel: "idle", "for_faces", "loop", "built"
    i,                    \* from_dcel: index of the for loop over dcel.faces
    num_edges,            \* from_dcel: local num_edges
    start_edge,           \* from_dcel: local start_edge
    current_edge,         \* from_dcel: local current_edge
    highest_edges_count,  \* from_dcel: local highest_edges_count
    highest_edges_face,   \* from_dcel: local highest_edges_face
    outside_face_id,      \* VoronoiDiagram.outside_face_id (-1 before construction)
    walked,               \* history: face index -> iterations of the inner loop spent on it
    iters,                \* the VoronoiCellsIterator values handed out by cells()
    cell,                 \* face_id of the VoronoiCell in hand (-1: none)
    ppc,                  \* position of points(): "idle", "loop", "returned"
    mode,                 \* who called points(): "points", "centroid_len", "centroid_sum"
    p_start,              \* points(): local start_edge
    p_current,            \* points(): local current_edge
    points,               \* points(): local Vec points
    c_len,                \* centroid(): points.len() of its first points() call
    centroid,             \* value returned by centroid() (<<>> before a return)
    rect,                 \* Rect under test
    pt,                   \* Point handed to contains_point
    contains              \* <<value returned by contains_point>> (<<>> before the call)

vars == <<halfedges, faces, pc, i, num_edges, start_edge, current_edge,
          highest_edges_count, highest_edges_face, outside_face_id, walked,
          iters, cell, ppc, mode, p_start, p_current, points, c_len, centroid,
          rect, pt, contains>>

dcelVars == <<halfedges, faces>>
buildVars == <<pc, i, num_edges, start_edge, current_edge, highest_edges_count,
               highest_edges_face, outside_face_id, walked>>
cellVars == <<ppc, mode, p_start, p_current, points, c_len, centroid>>
rectVars == <<rect, pt, contains>>

-----------------------------------------------------------------------------
(* Bounds of the model *)

MaxEdges == 3        \* half-edges in the DCELs of Init
MaxFaces == 3        \* faces in the DCELs of Init
CellMaxEdges == 4    \* length of the cell boundary in the DCELs of InitCell

\* The loop counters of a walk that never closes grow without bound in the
\* code; the model lets them saturate one above the longest closed cycle.
WalkCap == IF MaxEdges > CellMaxEdges THEN MaxEdges + 1 ELSE CellMaxEdges + 1

Iters == {1, 2}

-----------------------------------------------------------------------------
(* The DCEL *)

NumEdges == Cardinality(DOMAIN halfedges)
NumFaces == Cardinality(DOMAIN faces)

Table(n, S) == [0..(n - 1) -> S]

\* dcel.get_origin(edge)
get_origin(edge) == halfedges[edge].origin

Pt(x, y) == [x |-> x, y |-> y]

\* Origins of the DCELs of Init: half-edges alternate between two points,
\* so that a boundary of three or more half-edges repeats a point.
DefaultOrigin(e) == Pt(e % 2, 0)

\* n-th successor of half-edge e along next
RECURSIVE NextN(_, _)
NextN(e, n) == IF n = 0 THEN e ELSE NextN(halfedges[e].next, n - 1)

\* The next chain from e comes back to e.
Closed(e) == \E n \in 1..NumEdges : NextN(e, n) = e

\* Number of next-steps from e until e recurs (for a closed chain).
CycleLen(e) == CHOOSE n \in 1..NumEdges :
                  /\ NextN(e, n) = e
                  /\ \A m \in 1..(n - 1) : NextN(e, m) # e

LiveFaces == {f \in DOMAIN faces : faces[f].alive}

AllLiveClosed == \A f \in LiveFaces : Closed(faces[f].outer_component)

-----------------------------------------------------------------------------
(* f64 arithmetic (IEEE 754 binary64, round to nearest, ties to even).    *)
(* A positive f64 is [hi, lo, e] with value (hi * Limb + lo) * 2^e, the   *)
(* 53-bit significand split in a 27-bit limb hi (Limb <= hi < 2 * Limb)   *)
(* and a 26-bit limb lo.  Integers of magnitude below 2^53 are f64 values *)
(* themselves and are written as integers where the code only adds them.  *)

Limb == 8192 * 8192

RECURSIVE TwoPow(_)
TwoPow(n) == IF n = 0 THEN 1 ELSE 2 * TwoPow(n - 1)

Zero == [hi |-> 0, lo |-> 0, e |-> 0]

\* Rounds the significand hi:lo, followed by a guard bit and a sticky bit.
RoundNearestEven(hi, lo, e, guard, sticky) ==
    IF ~(guard = 1 /\ (sticky = 1 \/ lo % 2 = 1)) THEN [hi |-> hi, lo |-> lo, e |-> e]
    ELSE IF lo + 1 < Limb THEN [hi |-> hi, lo |-> lo + 1, e |-> e]
    ELSE IF hi + 1 < 2 * Limb THEN [hi |-> hi + 1, lo |-> 0, e |-> e]
    ELSE [hi |-> Limb, lo |-> 0, e |-> e + 1]

\* Shifts a significand that outgrew 53 bits back into range, then rounds.
RECURSIVE Normalise(_, _, _, _, _)
Normalise(hi, lo, e, guard, sticky) ==
    IF hi < 2 * Limb THEN RoundNearestEven(hi, lo, e, guard, sticky)
    ELSE Normalise(hi \div 2, (hi % 2) * (Limb \div 2) + lo \div 2, e + 1,
                   lo % 2, IF guard = 1 \/ sticky = 1 THEN 1 ELSE 0)

\* floor(log2(a / n)) for positive integers a, n
RECURSIVE Log2Ratio(_, _)
Log2Ratio(a, n) ==
    IF a < n THEN Log2Ratio(2 * a, n) - 1
    ELSE IF a >= 2 * n THEN Log2Ratio(a, 2 * n) + 1
    ELSE 0

\* The f64 quotient a / n of two small non-negative integers, n > 0.
Fdiv(a, n) ==
    IF a = 0 THEN Zero
    ELSE LET t == Log2Ratio(a, n)
             top == a * TwoPow(26 - t)
             r1 == top % n
             r2 == (r1 * Limb) % n
         IN RoundNearestEven(top \div n, (r1 * Limb) \div n, t - 52,
                             IF 2 * r2 >= n THEN 1 ELSE 0,
                             IF (2 * r2) % n # 0 THEN 1 ELSE 0)

\* The f64 product s * r of a small non-negative integer s (at most 15) and
\* an f64 r.
Fmul(s, r) ==
    IF s = 0 \/ r = Zero THEN Zero
    ELSE LET plo == s * r.lo
         IN Normalise(s * r.hi + plo \div Limb, plo % Limb, r.e, 0, 0)

\* The f64 holding the integer m
F64(m) == Fdiv(m, 1)

\* Point + Point
PointAdd(p, q) == Pt(p.x + q.x, p.y + q.y)

\* Point * f64
PointMul(p, r) == Pt(Fmul(p.x, r), Fmul(p.y, r))

-----------------------------------------------------------------------------
(* Initial states *)

\* The faces a table of ne half-edges can hold.  A dead face keeps half-edge
\* 0 as its outer_component (whatever chain that one starts); with no
\* half-edge at all every face is dead.
FaceRecs(ne) ==
    [outer_component : {0}, alive : {FALSE}]
        \cup IF ne = 0 THEN {} ELSE [outer_component : 0..(ne - 1), alive : {TRUE}]

\* The next functions on ne half-edges, one per renaming of the half-edge
\* identifiers: every next function has a renaming in which no half-edge
\* points more than one identifier ahead (number each cycle consecutively,
\* then the half-edges leading into it after the ones they lead to).
NextTables(ne) == {nx \in Table(ne, 0..(ne - 1)) : \A e \in 0..(ne - 1) : nx[e] <= e + 1}

\* The lowest live face of the table fs, as a set (empty without one).
FirstLive(fs) ==
    {f \in DOMAIN fs : fs[f].alive /\ \A g \in DOMAIN fs : fs[g].alive => f <= g}

\* (variant: "no face yet" is the index past the table)
HighestEdgesFaceLast == NumFaces

\* `let mut highest_edges_face = 0;`
HighestEdgesFaceInit == 0

NoIterator == [created |-> FALSE, pos |-> 0, yielded |-> <<>>, last |-> "unset"]

\* The state before any call: the DCEL hs, fs as the builder left it.  With
\* view = -1 the client is about to call from_dcel; otherwise it holds a
\* VoronoiCell on the face `view` of the DCEL and no diagram.
Start(hs, fs, view) ==
    /\ halfedges = hs
    /\ faces = fs
    /\ pc = IF view = -1 THEN "for_faces" ELSE "idle"
    /\ i = 0
    /\ num_edges = 0
    /\ start_edge = 0
    /\ current_edge = 0
    /\ highest_edges_count = 0
    /\ highest_edges_face = HighestEdgesFaceInit
    /\ outside_face_id = -1
    /\ walked = [f \in DOMAIN fs |-> 0]
    /\ iters = [it \in Iters |-> NoIterator]
    /\ cell = view
    /\ ppc = "idle"
    /\ mode = "points"
    /\ p_start = 0
    /\ p_current = 0
    /\ points = <<>>
    /\ c_len = 0
    /\ centroid = <<>>

NoRect ==
    /\ rect = [left |-> 0, top |-> 0, right |-> 0, bottom |-> 0]
    /\ pt = Pt(0, 0)
    /\ contains = <<>>

\* Every DCEL of at most MaxEdges half-edges and MaxFaces faces: any next
\* function, any representative half-edge of a live face, any liveness.  The
\* client either builds the diagram or holds a cell on the first live face.
Init ==
    /\ \E ne \in 0..MaxEdges, nf \in 0..MaxFaces :
         \E nx \in NextTables(ne), fs \in Table(nf, FaceRecs(ne)) :
           \E view \in {-1} \cup FirstLive(fs) :
             Start([e \in 0..(ne - 1) |-> [next |-> nx[e], origin |-> DefaultOrigin(e)]],
                   fs, view)
    /\ NoRect

CellPoints == {Pt(0, 0), Pt(2, 0), Pt(2, 2), Pt(0, 2), Pt(3, 0)}

\* A polygon of n sides: the ring of half-edges 0..n-1 around the bounded
\* face and the ring of their twins n..2n-1, in the opposite direction,
\* around the unbounded face; a twin starts where its half-edge ends.
Polygon(n, org) ==
    [e \in 0..(2 * n - 1) |->
        IF e < n THEN [next |-> (e + 1) % n, origin |-> org[e]]
        ELSE [next |-> n + ((e - 1) % n), origin |-> org[(e - n + 1) % n]]]

\* Every polygon of at most CellMaxEdges sides with corners in CellPoints.
\* Face 0 is the unbounded face, face 1 the bounded one.
InitCell ==
    /\ \E n \in 1..CellMaxEdges :
         \E org \in Table(n, CellPoints), oc \in {0, n - 1} :
            Start(Polygon(n, org),
                  [f \in 0..1 |-> [outer_component |-> IF f = 0 THEN n ELSE oc,
                                   alive |-> TRUE]],
                  -1)
    /\ NoRect

RectCoords == {0, 5, 7, 10}

InitRect ==
    /\ Start(<<>>, <<>>, -1)
    /\ rect \in [left : RectCoords, top : RectCoords, right : RectCoords, bottom : RectCoords]
    /\ pt = Pt(0, 0)
    /\ contains = <<>>

-----------------------------------------------------------------------------
(* VoronoiDiagram::from_dcel *)

Saturate(n) == IF n < WalkCap THEN n ELSE WalkCap

\* (variant: the test reads current_edge before it advances)
FromDcelBreakStale(e) == current_edge = start_edge

\* `if current_edge == start_edge { break; }` of from_dcel, e the half-edge
\* current_edge has just advanced to
FromDcelBreak(e) == e = start_edge

\* (variant: a later face with as many edges replaces the earlier one)
HigherOrEqual(n, h) == n >= h

\* `if num_edges > highest_edges_count`
Higher(n, h) == n > h

\* Head of `for (i, face) in dcel.faces.iter().enumerate()`, up to the
\* entry of the inner loop; past the last face, the construction of the
\* VoronoiDiagram.
FromDcelFor ==
    /\ pc = "for_faces"
    /\ IF i >= NumFaces
         THEN /\ pc' = "built"
              /\ outside_face_id' = highest_edges_face
              /\ UNCHANGED <<i, num_edges, start_edge, current_edge>>
         ELSE IF ~faces[i].alive
           THEN /\ i' = i + 1
                /\ UNCHANGED <<pc, outside_face_id, num_edges, start_edge, current_edge>>
           ELSE /\ num_edges' = 0
                /\ start_edge' = faces[i].outer_component
                /\ current_edge' = faces[i].outer_component
                /\ pc' = "loop"
                /\ UNCHANGED <<i, outside_face_id>>
    /\ UNCHANGED <<highest_edges_count, highest_edges_face, walked>>
    /\ UNCHANGED <<dcelVars, iters, cell, cellVars, rectVars>>

\* One iteration of the inner `loop`; on break, the comparison with
\* highest_edges_count and the end of the for body.
FromDcelLoop ==
    /\ pc = "loop"
    /\ LET n == Saturate(num_edges + 1)
           e == halfedges[current_edge].next
       IN /\ walked' = [walked EXCEPT ![i] = Saturate(@ + 1)]
          /\ IF FromDcelBreak(e)
               THEN /\ IF Higher(n, highest_edges_count)
                         THEN /\ highest_edges_count' = n
                              /\ highest_edges_face' = i
                         ELSE UNCHANGED <<highest_edges_count, highest_edges_face>>
                    /\ i' = i + 1
                    /\ num_edges' = 0
                    /\ start_edge' = 0
                    /\ current_edge' = 0
                    /\ pc' = "for_faces"
               ELSE /\ num_edges' = n
                    /\ current_edge' = e
                    /\ UNCHANGED <<highest_edges_count, highest_edges_face, i,
                                   start_edge, pc>>
    /\ UNCHANGED <<outside_face_id, dcelVars, iters, cell, cellVars, rectVars>>

-----------------------------------------------------------------------------
(* VoronoiDiagram::cells and VoronoiCellsIterator::next *)

\* No call is in progress: the program is single-threaded and every call
\* runs to its return before the next one starts.
NoCall == ppc # "loop"

\* The client looks at cells (points(), centroid()) during its first
\* traversal, before it opens a second iterator.
Looking == ~iters[2].created

\* The client lets go of the value its last points() or centroid() call
\* returned when it goes on to its next call.
DropResult ==
    /\ ppc' = "idle"
    /\ mode' = "points"
    /\ p_start' = 0
    /\ p_current' = 0
    /\ points' = <<>>
    /\ c_len' = 0
    /\ centroid' = <<>>

\* cells(): a fresh iterator at the start of the face table.
Cells(it) ==
    /\ pc = "built"
    /\ NoCall
    /\ iters' = [iters EXCEPT ![it] = [created |-> TRUE, pos |-> 0,
                                       yielded |-> <<>>, last |-> "unset"]]
    /\ DropResult
    /\ UNCHANGED <<dcelVars, buildVars, cell, rectVars>>

\* (variant: the liveness of a face is not looked at)
RECURSIVE ScanFromWithDead(_)
ScanFromWithDead(p) ==
    IF p >= NumFaces THEN NumFaces
    ELSE IF p # outside_face_id THEN p
    ELSE ScanFromWithDead(p + 1)

\* (variant: the outside face is not left out)
RECURSIVE ScanFromWithOutside(_)
ScanFromWithOutside(p) ==
    IF p >= NumFaces THEN NumFaces
    ELSE IF faces[p].alive THEN p
    ELSE ScanFromWithOutside(p + 1)

\* The while loop of next(): the first face at or after p that is alive and
\* is not the outside face; NumFaces when faces_iter runs out.
RECURSIVE ScanFrom(_)
ScanFrom(p) ==
    IF p >= NumFaces THEN NumFaces
    ELSE IF faces[p].alive /\ p # outside_face_id THEN p
    ELSE ScanFrom(p + 1)

\* (variant: the iterators of one diagram share one cursor)
IterNextShared(it) ==
    /\ pc = "built"
    /\ NoCall
    /\ iters[it].created
    /\ LET j == ScanFrom(iters[it].pos)
           q == IF j < NumFaces THEN j + 1 ELSE NumFaces
       IN /\ iters' = [o \in Iters |->
                          IF o = it
                            THEN [created |-> TRUE, pos |-> q,
                                  yielded |-> IF j < NumFaces
                                                THEN Append(iters[o].yielded, j)
                                                ELSE iters[o].yielded,
                                  last |-> IF j < NumFaces THEN "Some" ELSE "None"]
                            ELSE [iters[o] EXCEPT !.pos = IF iters[o].created THEN q ELSE @]]
          /\ cell' = IF j < NumFaces THEN j ELSE cell
    /\ DropResult
    /\ UNCHANGED <<dcelVars, buildVars, rectVars>>

IterNext(it) ==
    /\ pc = "built"
    /\ NoCall
    /\ iters[it].created
    /\ LET j == ScanFrom(iters[it].pos)
       IN IF j < NumFaces
            THEN /\ iters' = [iters EXCEPT ![it] =
                                [created |-> TRUE, pos |-> j + 1,
                                 yielded |-> Append(@.yielded, j), last |-> "Some"]]
                 /\ cell' = j
            ELSE /\ iters' = [iters EXCEPT ![it] =
                                [created |-> TRUE, pos |-> NumFaces,
                                 yielded |-> @.yielded, last |-> "None"]]
                 /\ cell' = cell
    /\ DropResult
    /\ UNCHANGED <<dcelVars, buildVars, rectVars>>

-----------------------------------------------------------------------------
(* VoronoiCell::points and VoronoiCell::centroid *)

\* Entry of points(), called by `caller`, up to the loop.
EnterPoints(caller) ==
    /\ mode' = caller
    /\ points' = <<>>
    /\ p_start' = faces[cell].outer_component
    /\ p_current' = faces[cell].outer_component
    /\ ppc' = "loop"

PointsCall ==
    /\ cell # -1
    /\ NoCall
    /\ Looking
    /\ pc \in {"built", "idle"}
    /\ EnterPoints("points")
    /\ c_len' = 0
    /\ centroid' = <<>>
    /\ UNCHANGED <<dcelVars, buildVars, iters, cell, rectVars>>

\* Entry of centroid(), up to the loop of its first points() call.
CentroidCall ==
    /\ cell # -1
    /\ NoCall
    /\ Looking
    /\ pc \in {"built", "idle"}
    /\ EnterPoints("centroid_len")
    /\ c_len' = 0
    /\ centroid' = <<>>
    /\ UNCHANGED <<dcelVars, buildVars, iters, cell, rectVars>>

\* (variant: a defensive cap on the length of the walk)
PointsBreakCapped(e) == e = p_start \/ Len(points) + 1 >= WalkCap

\* `if current_edge == start_edge { break; }` of points(), e the half-edge
\* current_edge has just advanced to
PointsBreak(e) == e = p_start

\* (variant: a point already collected is not collected again)
PushDedup(v, p) ==
    IF \E k \in 1..Len(v) : v[k] = p THEN v
    ELSE IF Len(v) < WalkCap THEN Append(v, p) ELSE v

\* points.push(...)
Push(v, p) == IF Len(v) < WalkCap THEN Append(v, p) ELSE v

\* (variant: the first point is left out of the sum)
RECURSIVE SumPointsSkipFirst(_, _)
SumPointsSkipFirst(v, acc) ==
    IF Len(v) <= 1 THEN acc
    ELSE SumPointsSkipFirst(Tail(v), PointAdd(v[2], acc))

\* `for pt in self.points() { sum = pt + sum; }` from sum = acc
RECURSIVE SumPoints(_, _)
SumPoints(v, acc) ==
    IF v = <<>> THEN acc ELSE SumPoints(Tail(v), PointAdd(Head(v), acc))

\* One iteration of the loop of points(); on break, its return and what the
\* caller does with the value: points() hands it to the client, centroid()
\* keeps the length of the first and goes on to its second call, then sums
\* the second and returns sum * (1.0 / len).
PointsStep ==
    /\ ppc = "loop"
    /\ LET v == Push(points, get_origin(p_current))
           e == halfedges[p_current].next
       IN IF ~PointsBreak(e)
            THEN /\ points' = v
                 /\ p_current' = e
                 /\ UNCHANGED <<ppc, mode, p_start, c_len, centroid>>
            ELSE CASE mode = "points" ->
                        /\ points' = v
                        /\ p_current' = e
                        /\ ppc' = "returned"
                        /\ UNCHANGED <<mode, p_start, c_len, centroid>>
                   [] mode = "centroid_len" ->
                        /\ c_len' = Len(v)
                        /\ EnterPoints("centroid_sum")
                        /\ UNCHANGED centroid
                   [] mode = "centroid_sum" ->
                        /\ points' = v
                        /\ p_current' = e
                        /\ centroid' = PointMul(SumPoints(v, Pt(0, 0)), Fdiv(1, c_len))
                        /\ ppc' = "returned"
                        /\ UNCHANGED <<mode, p_start, c_len>>
    /\ UNCHANGED <<dcelVars, buildVars, iters, cell, rectVars>>

-----------------------------------------------------------------------------
(* Rect::contains_point *)

\* (variant: the comparisons admit the boundary)
contains_point_closed(r, p) ==
    p.x >= r.left /\ p.y >= r.top /\ p.x <= r.right /\ p.y <= r.bottom

contains_point(r, p) ==
    p.x > r.left /\ p.y > r.top /\ p.x < r.right /\ p.y < r.bottom

ContainsPoint ==
    /\ \E p \in [x : RectCoords, y : RectCoords] :
          /\ pt' = p
          /\ contains' = <<contains_point(rect, p)>>
    /\ UNCHANGED <<rect, dcelVars, buildVars, iters, cell, cellVars>>

-----------------------------------------------------------------------------
(* Specifications *)

Next ==
    \/ FromDcelFor
    \/ FromDcelLoop
    \/ \E it \in Iters : Cells(it)
    \/ \E it \in Iters : IterNext(it)
    \/ PointsCall
    \/ CentroidCall
    \/ PointsStep

Spec == Init /\ [][Next]_vars

SpecCell == InitCell /\ [][Next]_vars

SpecRect == InitRect /\ [][ContainsPoint]_vars

\* A call that has started runs on: the program is synchronous and nothing
\* suspends a loop between two iterations.
\* Construction, one traversal and points() on its cells.
NextWalk ==
    \/ FromDcelFor
    \/ FromDcelLoop
    \/ Cells(1)
    \/ IterNext(1)
    \/ PointsCall
    \/ PointsStep

FairSpec ==
    /\ Init
    /\ [][NextWalk]_vars
    /\ WF_vars(FromDcelFor)
    /\ WF_vars(FromDcelLoop)
    /\ WF_vars(PointsStep)

-----------------------------------------------------------------------------
(* Properties *)

Range(v) == {v[k] : k \in 1..Len(v)}

Ascending(v) == \A k \in 1..(Len(v) - 1) : v[k] < v[k + 1]

IsPrefix(v, w) == Len(v) <= Len(w) /\ \A k \in 1..Len(v) : v[k] = w[k]

\* The faces that are cells of the diagram
CellFaces == {f \in DOMAIN faces : faces[f].alive /\ f # outside_face_id}

\* Edge count of the boundary of face f (closed chains only)
FaceLen(f) == CycleLen(faces[f].outer_component)

\* The k-th half-edge (k = 1, 2, ...) of the boundary of face f
FaceEdge(f, k) == NextN(faces[f].outer_component, k - 1)

\* C1: exhausting an iterator of cells() yields exactly the live faces other
\* than the outside face, each once, in strictly ascending index order, and
\* once the face table is exhausted next() returns None.
C1_CellsAreLiveNonOutsideAscending ==
    /\ [](pc = "built" =>
            \A it \in Iters :
               /\ Ascending(iters[it].yielded)
               /\ Range(iters[it].yielded) \subseteq CellFaces
               /\ iters[it].last = "None" => Range(iters[it].yielded) = CellFaces)
    /\ [][\A it \in Iters :
            (iters[it].created /\ iters[it].pos = NumFaces /\ IterNext(it))
               => (iters'[it].last = "None" /\ iters'[it].yielded = iters[it].yielded)]_vars

\* An exhausted iterator that yielded two cells around the outside face.
C1_Witness ==
    /\ pc = "built"
    /\ outside_face_id = 1
    /\ iters[1].last = "None"
    /\ iters[1].yielded = <<0, 2>>

\* C2: with every live cycle closed and a live face present, outside_face_id
\* is the lowest index among the live faces of maximum edge count; a dead
\* face is never chosen.
C2_OutsideIsFirstLongestLiveFace ==
    (pc = "built" /\ LiveFaces # {} /\ AllLiveClosed) =>
        /\ outside_face_id \in LiveFaces
        /\ \A g \in LiveFaces :
              /\ FaceLen(g) <= FaceLen(outside_face_id)
              /\ FaceLen(g) = FaceLen(outside_face_id) => outside_face_id <= g

\* Two live faces tie behind a dead face whose chain is a longer cycle.
C2_Witness ==
    /\ pc = "built"
    /\ AllLiveClosed
    /\ \E d \in DOMAIN faces, g \in LiveFaces :
          /\ ~faces[d].alive
          /\ d < outside_face_id
          /\ Closed(faces[d].outer_component)
          /\ FaceLen(d) > FaceLen(outside_face_id)
          /\ g > outside_face_id
          /\ FaceLen(g) = FaceLen(outside_face_id)

\* C3: for a DCEL of N >= 1 site faces and one outside face, all live and
\* closed, among any number of dead faces, cells() yields N cells: the live
\* faces minus one, the one left out being a live face.
C3_CellCountIsLiveFacesMinusOne ==
    (pc = "built" /\ Cardinality(LiveFaces) >= 2 /\ AllLiveClosed) =>
        /\ outside_face_id \in LiveFaces
        /\ \A it \in Iters :
              iters[it].last = "None" =>
                 Len(iters[it].yielded) = Cardinality(LiveFaces) - 1

\* Two sites and the outside face, or one site beside a dead face.
C3_Witness ==
    /\ pc = "built"
    /\ Cardinality(LiveFaces) = 2
    /\ NumFaces = 3
    /\ iters[1].last = "None"
    /\ Len(iters[1].yielded) = 1

\* C4: points() of a cell with a closed boundary returns the origins of the
\* half-edges of the cycle in next-order from outer_component: as many as
\* the cycle has half-edges (at least one), the k-th the origin of the k-th
\* half-edge, nothing appended for the return to the start, repeated points
\* kept, and the next of the last half-edge is outer_component.
C4_PointsAreOriginsInCycleOrder ==
    (ppc = "returned" /\ mode = "points" /\ Closed(faces[cell].outer_component)) =>
        /\ Len(points) = FaceLen(cell)
        /\ Len(points) >= 1
        /\ \A k \in 1..Len(points) : points[k] = halfedges[FaceEdge(cell, k)].origin
        /\ halfedges[FaceEdge(cell, Len(points))].next = faces[cell].outer_component

\* The boundary of a yielded cell, three half-edges long, with a repeated point.
C4_Witness ==
    /\ pc = "built"
    /\ ppc = "returned"
    /\ mode = "points"
    /\ cell \in Range(iters[1].yielded)
    /\ Len(points) = 3
    /\ points[1] = points[3]

\* Sum of the x (c = "x") or y (c = "y") coordinates of the first k origins
\* of the boundary of face f
RECURSIVE SumCoord(_, _, _)
SumCoord(f, k, c) ==
    IF k = 0 THEN 0
    ELSE SumCoord(f, k - 1, c) + (IF c = "x" THEN halfedges[FaceEdge(f, k)].origin.x
                                    ELSE halfedges[FaceEdge(f, k)].origin.y)

\* The f64 quotients of the coordinate sums of the boundary of f by its length
MeanOfBoundary(f) ==
    Pt(Fdiv(SumCoord(f, FaceLen(f), "x"), FaceLen(f)),
       Fdiv(SumCoord(f, FaceLen(f), "y"), FaceLen(f)))

\* C5: centroid() of a cell with a closed boundary is the coordinate-wise
\* arithmetic mean of points(): the sum of the x divided by the number of
\* points, the sum of the y divided by the number of points.
C5_CentroidIsMeanOfPoints ==
    (ppc = "returned" /\ mode = "centroid_sum") => centroid = MeanOfBoundary(cell)

\* C5, the part of it the code does meet: for a boundary of 1, 2 or 4 points
\* (the reciprocal of the length is then exact) centroid() is the mean, and
\* the square (0,0),(2,0),(2,2),(0,2) has centroid (1,1).
C5_CentroidIsMeanForPowerOfTwoLengths ==
    (ppc = "returned" /\ mode = "centroid_sum") =>
        /\ FaceLen(cell) \in {1, 2, 4} => centroid = MeanOfBoundary(cell)
        /\ points = <<Pt(0, 0), Pt(2, 0), Pt(2, 2), Pt(0, 2)>> => centroid = Pt(F64(1), F64(1))

\* centroid() has returned for the square.
C5_Witness ==
    /\ ppc = "returned"
    /\ mode = "centroid_sum"
    /\ points = <<Pt(0, 0), Pt(2, 0), Pt(2, 2), Pt(0, 2)>>

\* C6: contains_point(p) is true exactly when left < p.x < right and
\* top < p.y < bottom; a point on the boundary is outside, and a rectangle
\* with left >= right or top >= bottom contains no point.
C6_ContainsIsStrictInterior ==
    contains # <<>> =>
        /\ contains[1] = (/\ rect.left < pt.x
                          /\ pt.x < rect.right
                          /\ rect.top < pt.y
                          /\ pt.y < rect.bottom)
        /\ (pt.x \in {rect.left, rect.right} \/ pt.y \in {rect.top, rect.bottom})
              => contains[1] = FALSE
        /\ (rect.left >= rect.right \/ rect.top >= rect.bottom) => contains[1] = FALSE
        /\ rect = [left |-> 0, top |-> 0, right |-> 10, bottom |-> 10] =>
              /\ pt = Pt(5, 5) => contains[1] = TRUE
              /\ pt = Pt(0, 0) => contains[1] = FALSE
              /\ pt = Pt(10, 5) => contains[1] = FALSE

\* The point (10,5) on the right side of Rect{0,0,10,10} has been tested.
C6_Witness ==
    /\ rect = [left |-> 0, top |-> 0, right |-> 10, bottom |-> 10]
    /\ pt = Pt(10, 5)
    /\ contains = <<FALSE>>

\* C7: without a live face (the face table empty or all dead) from_dcel
\* walks no cycle and returns outside_face_id = 0, and cells() yields nothing.
C7_NoLiveFaceDefaultsToFaceZero ==
    LiveFaces = {} =>
        /\ pc \in {"for_faces", "built"}
        /\ \A f \in DOMAIN faces : walked[f] = 0
        /\ pc = "built" => outside_face_id = 0
        /\ \A it \in Iters : iters[it].yielded = <<>> /\ iters[it].last # "Some"

\* A table of dead faces only, its iterator exhausted.
C7_Witness ==
    /\ LiveFaces = {}
    /\ NumFaces >= 1
    /\ pc = "built"
    /\ iters[1].last = "None"

\* What an iterator on its own yields from position p on
RECURSIVE AloneFrom(_)
AloneFrom(p) ==
    LET j == ScanFrom(p)
    IN IF j < NumFaces THEN <<j>> \o AloneFrom(j + 1) ELSE <<>>

\* C8: two iterators of one diagram, their next() calls interleaved in any
\* way, each yield what an iterator on its own yields; and no next(),
\* points() or centroid() call changes the DCEL or outside_face_id.
C8_IteratorsIndependentDiagramUnchanged ==
    /\ [](pc = "built" =>
            \A it \in Iters :
               /\ IsPrefix(iters[it].yielded, AloneFrom(0))
               /\ iters[it].pos = (IF iters[it].yielded = <<>> THEN 0
                                    ELSE iters[it].yielded[Len(iters[it].yielded)] + 1)
                     \/ iters[it].last = "None"
               /\ iters[it].last = "None" => iters[it].yielded = AloneFrom(0))
    /\ [][pc = "built" => /\ halfedges' = halfedges
                          /\ faces' = faces
                          /\ outside_face_id' = outside_face_id]_vars

\* Both iterators part-way, at different places.
C8_Witness ==
    /\ pc = "built"
    /\ iters[1].last = "Some"
    /\ iters[2].last = "Some"
    /\ Len(iters[1].yielded) = 2
    /\ Len(iters[2].yielded) = 1

\* C9: when the chain of every live face is closed, from_dcel terminates
\* after as many steps as the live cycles have half-edges, none of them on
\* the chain of a dead face, and points() on a cell terminates after as
\* many steps as its cycle has half-edges.
C9_ClosedWalksTerminate ==
    /\ (pc = "for_faces" /\ AllLiveClosed) ~> (pc = "built")
    /\ (ppc = "loop" /\ Closed(p_start)) ~> (ppc = "returned")
    /\ [](pc = "built" =>
            \A f \in DOMAIN faces :
               walked[f] = IF faces[f].alive THEN FaceLen(f) ELSE 0)
    /\ []((ppc = "returned" /\ mode = "points") => Len(points) = FaceLen(cell))

\* A diagram built over a dead face whose chain never closes, and the two
\* points of one of its cells.
C9_Witness ==
    /\ pc = "built"
    /\ \E d \in DOMAIN faces : ~faces[d].alive /\ ~Closed(faces[d].outer_component)
    /\ ppc = "returned"
    /\ mode = "points"
    /\ Len(points) = 2

C10_WitnessPoints ==
    /\ ppc = "loop"
    /\ ~Closed(p_start)
    /\ Len(points) = WalkCap

=============================================================================
